---- MODULE Spec2Model ----
(***************************************************************************)
(* Rust CAD (src/src/main.rs): points, triangles, faces and objects, the   *)
(* shape generators, the unimplemented transformations and the two STL     *)
(* writers.                                                                *)
(*                                                                         *)
(* A Length is an f32 in the source.  Here a Length is the integer number  *)
(* of thousandths it stands for (1.0 is Unit, 0.5 is 500).  Sums and       *)
(* products of the inputs used below are exact both in f32 and here; the   *)
(* coordinates that circle computes from cos and sin are rounded to the    *)
(* nearest thousandth.                                                     *)
(***************************************************************************)
EXTENDS Integers, Sequences, FiniteSets, TLC

VARIABLES
    mesh,      \* the Object being built or written: its faces, in order
    op,        \* the last operation applied ("new" after Object::new())
    arg,       \* the arguments of that operation: its numbers (n), points (p),
               \* strings (s), objects (o) and triangles (t), each in order
    prev,      \* the faces before that operation
    moved,     \* TRUE once the Object has been passed by value and dropped
    steps,     \* the number of += / *= operations applied since new()
    ret,       \* what the last call returned to its caller
    wfn,       \* the writer running: "write_stl" or "write_text_stl"
    pc,        \* the writer's next statement
    wi,        \* the writer's face index (0-based, as in the for loop)
    wj,        \* the point of the face being written (0 normal, 1..3 vertices)
    wk,        \* the write_f32 of write_point to run next (1..3: x, y, z)
    bytes,     \* what write_stl has put in the file
    utf8,      \* what write_text_stl has put in the file
    attempts,  \* the number of File::create and write calls issued
    failed,    \* the call that failed, as <<statement, attempt number>>, or <<>>
    wret       \* the writer's result: <<"running">>, <<"Ok">> or <<"Err", ...>>

vars == <<mesh, op, arg, prev, moved, steps, ret, wfn, pc, wi, wj, wk, bytes, utf8,
          attempts, failed, wret>>

meshVars == <<mesh, op, arg, prev, moved, steps, ret>>
writerVars == <<wfn, pc, wi, wj, wk, bytes, utf8, attempts, failed, wret>>

----------------------------------------------------------------------------
(* Bounds of the model *)

MaxRing == 4
MaxOps == 2
MaxWriteFaces == 3

(* Options *)

FRAGMENTS == 32

----------------------------------------------------------------------------
(* Lengths *)

Unit == 10 * 10 * 10

Min(a, b) == IF a <= b THEN a ELSE b

\* a * b of two Lengths, rounded to the nearest thousandth
Mul(a, b) ==
    LET p == a * b
    IN  IF p >= 0 THEN (p + Unit \div 2) \div Unit
                  ELSE -((-p + Unit \div 2) \div Unit)

----------------------------------------------------------------------------
(* Points *)

Point_new(x, y, z) == [x |-> x, y |-> y, z |-> z]

ORIGIN == Point_new(0, 0, 0)

point_add(self, other) ==
    Point_new(self.x + other.x, self.y + other.y, self.z + other.z)

point_mul_assign(self, scale) ==
    Point_new(Mul(self.x, scale), Mul(self.y, scale), Mul(self.z, scale))

(* Triangles *)

Triangle_new(p1, p2, p3) == [vertex |-> <<p1, p2, p3>>]

triangle_add_assign(self, vector) ==
    [vertex |-> <<point_add(self.vertex[1], vector),
                  point_add(self.vertex[2], vector),
                  point_add(self.vertex[3], vector)>>]

triangle_mul_assign(self, scale) ==
    [vertex |-> <<point_mul_assign(self.vertex[1], scale),
                  point_mul_assign(self.vertex[2], scale),
                  point_mul_assign(self.vertex[3], scale)>>]

----------------------------------------------------------------------------
(* Objects: an Object is modelled by its Vec of faces *)

Object_new == <<>>

DefaultColour == [r |-> 0, g |-> 0, b |-> 0, alpha |-> 0]

UpNormal == Point_new(0, 0, Unit)

\* a plausible slip: the normal derived from the triangle's first edge
NormalFromEdge(triangle) ==
    [normal |-> Point_new(triangle.vertex[2].x - triangle.vertex[1].x,
                          triangle.vertex[2].y - triangle.vertex[1].y,
                          triangle.vertex[2].z - triangle.vertex[1].z),
     triangle |-> triangle,
     colour |-> DefaultColour]

\* the Face that `obj += triangle` builds
NewFace(triangle) ==
    [normal |-> UpNormal, triangle |-> triangle, colour |-> DefaultColour]

\* obj += triangle
object_add_assign_triangle(self, triangle) == Append(self, NewFace(triangle))

\* obj += other   (by reference or by value)
object_add_assign_object(self, other) == self \o other

RECURSIVE MapFaces(_, _, _)
\* the loop `for face in &mut obj.faces`, shifting (kind "add") or scaling
\* (kind "mul") the triangle of each face in turn
MapFaces(faces, kind, by) ==
    IF faces = <<>> THEN <<>>
    ELSE <<[Head(faces) EXCEPT !.triangle =
                IF kind = "add" THEN triangle_add_assign(@, by)
                                ELSE triangle_mul_assign(@, by)]>>
         \o MapFaces(Tail(faces), kind, by)

\* obj + vector and obj += vector
object_add_vector(self, vector) == MapFaces(self, "add", vector)

\* obj *= scale
object_mul_assign(self, scale) == MapFaces(self, "mul", scale)

----------------------------------------------------------------------------
(* Fans *)

\* itertools::zip: pairs up to the shorter of the two
zip(a, b) == [i \in 1..Min(Len(a), Len(b)) |-> <<a[i], b[i]>>]

RECURSIVE push_fan(_, _, _)
\* the loop `for (p2, p3) in pairs { shape += Triangle::new(p1, *p2, *p3) }`
push_fan(shape, p1, pairs) ==
    IF Len(pairs) = 0 THEN shape
    ELSE push_fan(object_add_assign_triangle(
                      shape, Triangle_new(p1, pairs[1][1], pairs[1][2])),
                  p1, Tail(pairs))

\* a plausible slip: the fan pairs zip(&vertices, &vertices[1..])
PolygonFromFirst(vertices) ==
    push_fan(Object_new, vertices[1], zip(vertices, Tail(vertices)))

polygon(vertices) ==
    push_fan(Object_new, vertices[1],
             zip(Tail(vertices), Tail(Tail(vertices))))

----------------------------------------------------------------------------
(* 2D shapes *)

\* `theta.cos()` and `theta.sin()` for theta = index as f32 * angle, angle the
\* f32 2.0*PI/FRAGMENTS, index = 0 .. FRAGMENTS-1, in units of 1/Fine
Fine == 10 * Unit * Unit

CircleCos ==
    <<10000000, 9807853, 9238795, 8314696, 7071068, 5555702, 3826834,
      1950902, 0, -1950903, -3826835, -5555704, -7071068, -8314697,
      -9238796, -9807853, -10000000, -9807853, -9238795, -8314695,
      -7071066, -5555700, -3826831, -1950904, 0, 1950904, 3826836,
      5555704, 7071070, 8314696, 9238796, 9807853>>

CircleSin ==
    <<0, 1950903, 3826835, 5555702, 7071068, 8314697, 9238795, 9807853,
      10000000, 9807853, 9238795, 8314695, 7071068, 5555702, 3826833,
      1950903, -1, -1950905, -3826834, -5555703, -7071069, -8314698,
      -9238797, -9807853, -10000000, -9807853, -9238794, -8314695,
      -7071065, -5555703, -3826834, -1950902>>

\* r * c, r a Length and c in units of 1/Fine, rounded to the nearest
\* thousandth; the product is taken in two parts to stay within 32 bits
MulFine(r, c) ==
    LET a == IF r < 0 THEN -r ELSE r
        b == IF c < 0 THEN -c ELSE c
        split == Fine \div Unit
        q == (a * (b \div split) + Unit \div 2 + (a * (b % split)) \div split)
                 \div Unit
    IN  IF (r < 0) = (c < 0) THEN q ELSE -q

circle_points(r) ==
    [index \in 1..FRAGMENTS |->
        Point_new(MulFine(r, CircleCos[index]), MulFine(r, CircleSin[index]), 0)]

circle(r) == polygon(circle_points(r))

squarish(v1, v2) == polygon(<<ORIGIN, v1, point_add(v1, v2), v2>>)

rectangle(width, height) ==
    squarish(Point_new(width, 0, 0), Point_new(0, height, 0))

square(l) == rectangle(l, l)

----------------------------------------------------------------------------
(* Basic objects *)

\* a plausible slip: the second side panel shifted by vy instead of vx
PrismSideAlongY(width, depth, height) ==
    LET vx == Point_new(width, 0, 0)
        vy == Point_new(0, depth, 0)
        vz == Point_new(0, 0, height)
        bottom == squarish(vx, vy)
        side == squarish(vy, vz)
        front == squarish(vx, vz)
    IN  bottom \o object_add_vector(bottom, vz)
        \o side \o object_add_vector(side, vy)
        \o front \o object_add_vector(front, vy)

rectangular_prism(width, depth, height) ==
    LET vx == Point_new(width, 0, 0)
        vy == Point_new(0, depth, 0)
        vz == Point_new(0, 0, height)
        bottom == squarish(vx, vy)
        side == squarish(vy, vz)
        front == squarish(vx, vz)
        o1 == object_add_assign_object(Object_new, bottom)
        o2 == object_add_assign_object(o1, object_add_vector(bottom, vz))
        o3 == object_add_assign_object(o2, side)
        o4 == object_add_assign_object(o3, object_add_vector(side, vx))
        o5 == object_add_assign_object(o4, front)
    IN  object_add_assign_object(o5, object_add_vector(front, vy))

\* center is not used
cube(size, center) == rectangular_prism(size, size, size)

\* `obj.extrude(height)` is commented out; height is not used
cylinder(height, radius) == circle(radius)

----------------------------------------------------------------------------
(* The inputs of the operations *)

Dims == {-Unit, 0, Unit, 2 * Unit}

Radii == {Unit, 10 * Unit}

Pts == {ORIGIN, Point_new(Unit, 0, 0), Point_new(0, 2 * Unit, Unit)}

Rings(shortest) ==
    UNION {{SubSeq(f, 1, n) : f \in [1..n -> Pts]} : n \in shortest..MaxRing}

Vectors == {Point_new(Unit, 0, 0), Point_new(0, -2 * Unit, 3 * Unit)}

Scales == {-Unit, 0, 2 * Unit}

Triangles ==
    {Triangle_new(ORIGIN, Point_new(Unit, 0, 0), Point_new(0, Unit, 0)),
     Triangle_new(ORIGIN, Point_new(0, 0, Unit), Point_new(0, Unit, 0))}

Names == {"red", "green"}

GeneratorOps ==
    {"polygon", "umbrella", "circle", "squarish", "rectangle", "square",
     "icosahedron", "rectangular_prism", "cube", "cylinder"}

MeshOps == {"add_assign_triangle", "add_assign_object", "translate", "scale"}

TransformStubs ==
    {"rotate", "resize", "mirror", "color_by_name", "color", "offset",
     "hull", "minkowski", "text"}

ReadStubs == {"read_stl", "read_text_stl"}

OtherStubs == {"sphere", "polyhedron"}

StubOps == TransformStubs \cup ReadStubs \cup OtherStubs

----------------------------------------------------------------------------
(* The generators, each called on a fresh program state *)

NoArg == [n |-> <<>>, p |-> <<>>, s |-> <<>>, o |-> <<>>, t |-> <<>>]

Numbers(ns) == [NoArg EXCEPT !.n = ns]

Points(ps) == [NoArg EXCEPT !.p = ps]

Generate(name, a, result) ==
    /\ op = "new"
    /\ mesh' = result
    /\ op' = name
    /\ arg' = a
    /\ prev' = mesh
    /\ ret' = "Object"
    /\ UNCHANGED <<moved, steps, writerVars>>

\* a call of a function the compiler rejects: nothing is built and nothing
\* comes back to the caller
NoValue(name, a) ==
    /\ op = "new"
    /\ mesh' = mesh
    /\ op' = name
    /\ arg' = a
    /\ prev' = mesh
    /\ ret' = "no value"
    /\ UNCHANGED <<moved, steps, writerVars>>

Call_polygon ==
    \E vertices \in Rings(2) : Generate("polygon", Points(vertices), polygon(vertices))

\* umbrella, as written, names its ring `vertices` where the parameter is
\* `spokes`, hands the &Point `centre` to Triangle::new, which takes a Point,
\* and indexes the ring with -1: the compiler rejects it and no call of it
\* yields an Object
Call_umbrella ==
    \E centre \in Pts, spokes \in Rings(1) :
        NoValue("umbrella", Points(<<centre>> \o spokes))

Call_circle == \E r \in Radii : Generate("circle", Numbers(<<r>>), circle(r))

Call_squarish ==
    \E v1 \in Pts, v2 \in Pts :
        Generate("squarish", Points(<<v1, v2>>), squarish(v1, v2))

Call_rectangle ==
    \E width \in Dims, height \in Dims :
        Generate("rectangle", Numbers(<<width, height>>),
                 rectangle(width, height))

Call_square == \E l \in Dims : Generate("square", Numbers(<<l>>), square(l))

\* icosahedron, as written, imports `Object::umbrella` with `use`, writes
\* `.collect::Vec<Point>()`, does `obj +=` on an immutable binding and calls
\* umbrella: the compiler rejects it and no call of it yields an Object
Call_icosahedron ==
    \E radius \in Radii : NoValue("icosahedron", Numbers(<<radius>>))

Call_rectangular_prism ==
    \E width \in Dims, depth \in Dims, height \in Dims :
        Generate("rectangular_prism", Numbers(<<width, depth, height>>),
                 rectangular_prism(width, depth, height))

Call_cube ==
    \E size \in Dims, center \in Pts :
        Generate("cube", [NoArg EXCEPT !.n = <<size>>, !.p = <<center>>],
                 cube(size, center))

Call_cylinder ==
    \E height \in Dims, radius \in Radii :
        Generate("cylinder", Numbers(<<height, radius>>),
                 cylinder(height, radius))

----------------------------------------------------------------------------
(* The operators of Object, applied to an Object built up from new() *)

Apply(name, a, result) ==
    /\ op \in {"new"} \cup MeshOps
    /\ ~moved
    /\ steps < MaxOps
    /\ mesh' = result
    /\ op' = name
    /\ arg' = a
    /\ prev' = mesh
    /\ steps' = steps + 1
    /\ ret' = "unit"
    /\ UNCHANGED <<moved, writerVars>>

\* obj += triangle
add_assign_triangle ==
    \E triangle \in Triangles :
        Apply("add_assign_triangle", [NoArg EXCEPT !.t = <<triangle>>],
              object_add_assign_triangle(mesh, triangle))

\* obj += other, other a clone of obj or a rectangle
add_assign_object ==
    \E other \in {mesh, rectangle(Unit, 2 * Unit)} :
        Apply("add_assign_object", [NoArg EXCEPT !.o = <<other>>],
              object_add_assign_object(mesh, other))

translate ==
    \E by \in Vectors : Apply("translate", Points(<<by>>), object_add_vector(mesh, by))

scale ==
    \E factor \in Scales :
        Apply("scale", Numbers(<<factor>>), object_mul_assign(mesh, factor))

----------------------------------------------------------------------------
(* The operations with an empty body, and the readers *)

\* a call of a function whose body is empty or a constant: the Object is
\* left as it was and `result` goes back to the caller
Stub(name, a, result) ==
    /\ mesh' = mesh
    /\ op' = name
    /\ arg' = a
    /\ prev' = mesh
    /\ ret' = result
    /\ UNCHANGED <<moved, steps, writerVars>>

\* such a call on an Object it borrows (&self or &mut self), which the
\* caller must still hold
StubOnObject(name, a, result) == ~moved /\ Stub(name, a, result)

\* fn rotate(self, by: Vector) {}: the Object is moved into the call and
\* dropped at its end, so the caller holds no Object afterwards
rotate ==
    \E by \in Vectors :
        /\ ~moved
        /\ mesh' = Object_new
        /\ moved' = TRUE
        /\ op' = "rotate"
        /\ arg' = Points(<<by>>)
        /\ prev' = mesh
        /\ ret' = "unit"
        /\ UNCHANGED <<steps, writerVars>>

resize == \E size \in Pts : StubOnObject("resize", Points(<<size>>), "unit")

mirror == \E around \in Pts : StubOnObject("mirror", Points(<<around>>), "unit")

color_by_name ==
    \E colour_name \in Names :
        StubOnObject("color_by_name",
             [NoArg EXCEPT !.s = <<colour_name>>, !.n = <<Unit>>], "unit")

color == \E r \in {0, Unit} : StubOnObject("color", Numbers(<<r, 0, 0, Unit>>), "unit")

offset == \E r \in Radii : StubOnObject("offset", Numbers(<<r>>), "unit")

hull ==
    \E other \in {mesh, Object_new} :
        StubOnObject("hull", [NoArg EXCEPT !.o = <<other>>], "unit")

minkowski ==
    \E other \in {mesh, Object_new} :
        StubOnObject("minkowski", [NoArg EXCEPT !.o = <<other>>], "unit")

text == \E t \in Names : Stub("text", [NoArg EXCEPT !.s = <<t>>], "unit")

sphere == \E radius \in Radii : Stub("sphere", Numbers(<<radius>>), "unit")

polyhedron ==
    \E points \in {<<>>, <<ORIGIN>>} : Stub("polyhedron", Points(points), "unit")

read_stl ==
    \E filename \in {"test_bin.stl"} :
        Stub("read_stl", [NoArg EXCEPT !.s = <<filename>>], "None")

read_text_stl ==
    \E filename \in {"test.stl"} :
        Stub("read_text_stl", [NoArg EXCEPT !.s = <<filename>>], "None")

----------------------------------------------------------------------------
(* The program that builds objects *)

Init ==
    /\ mesh = Object_new
    /\ op = "new"
    /\ arg = NoArg
    /\ prev = <<>>
    /\ moved = FALSE
    /\ steps = 0
    /\ ret = "Object"
    /\ wfn = "none"
    /\ pc = "idle"
    /\ wi = 0
    /\ wj = 0
    /\ wk = 1
    /\ bytes = <<>>
    /\ utf8 = ""
    /\ attempts = 0
    /\ failed = <<>>
    /\ wret = <<"running">>

Next ==
    \/ Call_polygon
    \/ Call_umbrella
    \/ Call_circle
    \/ Call_squarish
    \/ Call_rectangle
    \/ Call_square
    \/ Call_icosahedron
    \/ Call_rectangular_prism
    \/ Call_cube
    \/ Call_cylinder
    \/ add_assign_triangle
    \/ add_assign_object
    \/ translate
    \/ scale
    \/ rotate
    \/ resize
    \/ mirror
    \/ color_by_name
    \/ color
    \/ offset
    \/ hull
    \/ minkowski
    \/ text
    \/ sphere
    \/ polyhedron
    \/ read_stl
    \/ read_text_stl

Spec == Init /\ [][Next]_vars

----------------------------------------------------------------------------
(* STL files: the encodings *)

RECURSIVE Normalise(_, _, _)
\* the binary digits of acc + rem/Unit, one more per step, until acc holds
\* the 24 bits of an f32 significand; k counts the digits after the point
Normalise(acc, rem, k) ==
    IF acc >= 2^23 THEN <<acc, rem, k>>
    ELSE Normalise(2 * acc + (IF 2 * rem >= Unit THEN 1 ELSE 0),
                   (2 * rem) % Unit, k + 1)

\* the f32 nearest to a thousandths (round to nearest, ties to even), for
\* 0 < a / Unit < 2^24: <<m, k>> with 2^23 <= m < 2^24 and value m / 2^k
f32_nearest(a) ==
    LET t == Normalise(a \div Unit, a % Unit, 0)
        up == \/ 2 * t[2] > Unit
              \/ 2 * t[2] = Unit /\ t[1] % 2 = 1
        m == IF up THEN t[1] + 1 ELSE t[1]
    IN  IF m = 2^24 THEN <<2^23, t[3] - 1>> ELSE <<m, t[3]>>

\* the four bytes write_f32::<LittleEndian> writes for the f32 nearest to
\* n thousandths, for |n| / Unit < 2^24
f32_le_bytes(n) ==
    IF n = 0 THEN <<0, 0, 0, 0>>
    ELSE LET f == f32_nearest(IF n < 0 THEN -n ELSE n)
             frac == f[1] - 2^23
             e == 127 + 23 - f[2]
             sign == IF n < 0 THEN 1 ELSE 0
         IN  <<frac % 256,
               (frac \div 256) % 256,
               (e % 2) * 128 + frac \div 65536,
               sign * 128 + e \div 2>>

\* a plausible slip: the count written big-endian
U32BigEndian(n) ==
    <<(n \div 16777216) % 256, (n \div 65536) % 256, (n \div 256) % 256, n % 256>>

\* write_u32::<LittleEndian>
u32_le_bytes(n) ==
    <<n % 256, (n \div 256) % 256, (n \div 65536) % 256, (n \div 16777216) % 256>>

\* write_u16::<LittleEndian>
u16_le_bytes(n) == <<n % 256, (n \div 256) % 256>>

\* &[0_u8; 80]
Header == [i \in 1..80 |-> 0]

Digit(d) == SubSeq("0123456789", d + 1, d + 1)

RECURSIVE Decimal(_)
Decimal(a) == IF a < 10 THEN Digit(a) ELSE Decimal(a \div 10) \o Digit(a % 10)

RECURSIVE StripZeros(_)
StripZeros(a) == IF a % 10 = 0 THEN StripZeros(a \div 10) ELSE a

RECURSIVE Pow10(_)
Pow10(j) == IF j = 0 THEN 1 ELSE 10 * Pow10(j - 1)

\* An f32 f = <<m, k>> of 2^14 or more is P / w thousandths with P = 125 * m
\* and w = 2^(k-3).  A decimal of c thousandths reads back as f when it is
\* less than half the gap to the next f32 away from it: 125/2 in units of
\* 1/w (125/4 below f when f is a power of two).
reads_back(f, c) ==
    LET half == Unit \div 8
        P == half * f[1]
        w == 2^(f[2] - 3)
    IN  /\ c - P \div w <= half
        /\ P \div w - c <= half
        /\ LET d == c * w - P
           IN  IF d < 0
               THEN IF f[1] = 2^23 THEN 4 * (-d) < half ELSE 2 * (-d) < half
               ELSE 2 * d < half

\* the multiple of 10^j thousandths next below f (or f itself)
digits_below(f, j) ==
    ((((Unit \div 8) * f[1]) \div 2^(f[2] - 3)) \div Pow10(j)) * Pow10(j)

\* some decimal ending at the digit of 10^j thousandths reads back as f
stops_at(f, j) ==
    \/ reads_back(f, digits_below(f, j))
    \/ reads_back(f, digits_below(f, j) + Pow10(j))

\* the digits {:e} prints for the f32 nearest to a thousandths, as a number
\* of thousandths, for 0 < a < Unit^3: the decimal of fewest digits that
\* reads back as that f32 and, of those, the nearest to it (the upper one
\* when two are as near).  Below 2^14 the f32 are less than a thousandth
\* apart and that decimal is a itself.
format_shortest(a) ==
    IF a < 2^14 * Unit THEN a
    ELSE LET f == f32_nearest(a)
             j == CHOOSE i \in 0..8 :
                      stops_at(f, i) /\ \A h \in (i + 1)..8 : ~stops_at(f, h)
             lo == digits_below(f, j)
             hi == lo + Pow10(j)
             rest == (Unit \div 8) * f[1] - lo * 2^(f[2] - 3)
         IN  IF /\ reads_back(f, hi)
                /\ ~reads_back(f, lo) \/ 2 * rest >= Pow10(j) * 2^(f[2] - 3)
             THEN hi ELSE lo

\* {:e} of the f32 nearest to n thousandths: its shortest decimal digits in
\* scientific notation, for |n| < Unit^3
lower_exp(n) ==
    IF n = 0 THEN "0e0"
    ELSE LET a == format_shortest(IF n < 0 THEN -n ELSE n)
             d == Decimal(StripZeros(a))
             e == Len(Decimal(a)) - 1 - 3
         IN  (IF n < 0 THEN "-" ELSE "")
             \o SubSeq(d, 1, 1)
             \o (IF Len(d) > 1 THEN "." \o SubSeq(d, 2, Len(d)) ELSE "")
             \o "e"
             \o (IF e < 0 THEN "-" \o Decimal(-e) ELSE Decimal(e))

\* a plausible slip: the coordinates separated by commas
DisplayPointCommas(point) ==
    lower_exp(point.x) \o ", " \o lower_exp(point.y) \o ", " \o lower_exp(point.z)

\* fmt::Display for Point
display_point(point) ==
    lower_exp(point.x) \o " " \o lower_exp(point.y) \o " " \o lower_exp(point.z)

----------------------------------------------------------------------------
(* STL files: the writers, one action per File::create or write call *)

\* a plausible slip: the result of the call dropped instead of `?`
FlowIgnoringErr(ok, next, err) ==
    [pc |-> next,
     wret |-> IF next = "returned" THEN <<"Ok">> ELSE <<"running">>]

\* `call?;`: on Ok go on to `next` (Ok(()) at the end of the function), on
\* Err return the error at once
Flow(ok, next, err) ==
    IF ok THEN [pc |-> next,
                wret |-> IF next = "returned" THEN <<"Ok">> ELSE <<"running">>]
          ELSE [pc |-> "returned", wret |-> <<"Err">> \o err]

\* File::create(filename)?: the file is created empty, or the call fails
Create(fn, next) ==
    /\ wfn = fn
    /\ pc = "create"
    /\ attempts' = attempts + 1
    /\ \E ok \in BOOLEAN :
          LET to == Flow(ok, next, <<"create", attempts + 1>>)
          IN  /\ pc' = to.pc
              /\ wret' = to.wret
              /\ failed' = IF ok THEN failed ELSE <<"create", attempts + 1>>
    /\ bytes' = <<>>
    /\ utf8' = ""
    /\ UNCHANGED <<meshVars, wfn, wi, wj, wk>>

\* one write call of write_stl at statement stmt: all of data reaches the
\* file, or the call fails with only a part of data written
WriteBytes(stmt, data, next, i, j, k) ==
    /\ wfn = "write_stl"
    /\ pc = stmt
    /\ attempts' = attempts + 1
    /\ \E ok \in BOOLEAN :
          LET to == Flow(ok, next, <<stmt, attempts + 1>>)
          IN  /\ pc' = to.pc
              /\ wret' = to.wret
              /\ failed' = IF ok THEN failed ELSE <<stmt, attempts + 1>>
              /\ wi' = (IF ok THEN i ELSE wi)
              /\ wj' = (IF ok THEN j ELSE wj)
              /\ wk' = (IF ok THEN k ELSE wk)
              /\ \E n \in IF ok THEN {Len(data)} ELSE 0..(Len(data) - 1) :
                    bytes' = bytes \o SubSeq(data, 1, n)
    /\ UNCHANGED <<meshVars, wfn, utf8>>

\* one writeln! of write_text_stl at statement stmt
WriteLine(stmt, line, next, i, j) ==
    /\ wfn = "write_text_stl"
    /\ pc = stmt
    /\ attempts' = attempts + 1
    /\ \E ok \in BOOLEAN :
          LET to == Flow(ok, next, <<stmt, attempts + 1>>)
              data == line \o "\n"
          IN  /\ pc' = to.pc
              /\ wret' = to.wret
              /\ failed' = IF ok THEN failed ELSE <<stmt, attempts + 1>>
              /\ wi' = (IF ok THEN i ELSE wi)
              /\ wj' = (IF ok THEN j ELSE wj)
              /\ \E n \in IF ok THEN {Len(data)} ELSE 0..(Len(data) - 1) :
                    utf8' = utf8 \o SubSeq(data, 1, n)
    /\ UNCHANGED <<meshVars, wfn, wk, bytes>>

\* the point write_point is called with: the normal, then the three vertices
WrittenPoint == IF wj = 0 THEN mesh[wi + 1].normal
                          ELSE mesh[wi + 1].triangle.vertex[wj]

Coord(point, k) == IF k = 1 THEN point.x ELSE IF k = 2 THEN point.y ELSE point.z

stl_create == Create("write_stl", "header")

stl_header == WriteBytes("header", Header, "count", wi, wj, wk)

stl_count ==
    WriteBytes("count", u32_le_bytes(Len(mesh)),
               IF Len(mesh) > 0 THEN "point" ELSE "returned", 0, 0, 1)

\* the three write_f32 of write_point, for the normal and each vertex in turn
stl_write_point ==
    /\ pc = "point"
    /\ WriteBytes("point", f32_le_bytes(Coord(WrittenPoint, wk)),
                  IF wk = 3 /\ wj = 3 THEN "attr" ELSE "point",
                  wi,
                  IF wk = 3 /\ wj < 3 THEN wj + 1 ELSE wj,
                  IF wk = 3 THEN 1 ELSE wk + 1)

stl_attr ==
    WriteBytes("attr", u16_le_bytes(0),
               IF wi + 1 < Len(mesh) THEN "point" ELSE "returned",
               wi + 1, 0, 1)

txt_create == Create("write_text_stl", "solid")

txt_solid ==
    WriteLine("solid", "solid object",
              IF Len(mesh) > 0 THEN "facet" ELSE "endsolid", 0, 1)

txt_facet ==
    /\ pc = "facet"
    /\ WriteLine("facet", "facet normal " \o display_point(mesh[wi + 1].normal),
                 "outer_loop", wi, 1)

txt_outer_loop == WriteLine("outer_loop", "  outer loop", "vertex", wi, 1)

txt_vertex ==
    /\ pc = "vertex"
    /\ WriteLine("vertex",
                 "    vertex " \o display_point(mesh[wi + 1].triangle.vertex[wj]),
                 IF wj = 3 THEN "endloop" ELSE "vertex",
                 wi, IF wj = 3 THEN wj ELSE wj + 1)

txt_endloop == WriteLine("endloop", "  endloop", "endfacet", wi, wj)

txt_endfacet ==
    WriteLine("endfacet", "endfacet",
              IF wi + 1 < Len(mesh) THEN "facet" ELSE "endsolid", wi + 1, 1)

txt_endsolid == WriteLine("endsolid", "endsolid object", "returned", wi, wj)

----------------------------------------------------------------------------
(* The program that writes an object: main builds it and calls a writer *)

\* the rectangle of main and three more objects, none with a -0.0 coordinate
Written ==
    {rectangle(10 * Unit, 20 * Unit),
     rectangle(100, 1250),
     rectangular_prism(Unit, 2 * Unit, 3 * Unit),
     object_add_vector(rectangle(Unit, Unit), Point_new(-1500, 0, 2 * Unit))}

InitStl ==
    /\ mesh \in UNION {{SubSeq(m, 1, n) : n \in 0..Min(Len(m), MaxWriteFaces)} :
                        m \in Written}
    /\ op = "new"
    /\ arg = NoArg
    /\ prev = <<>>
    /\ moved = FALSE
    /\ steps = 0
    /\ ret = "Object"
    /\ wfn \in {"write_stl", "write_text_stl"}
    /\ pc = "create"
    /\ wi = 0
    /\ wj = 0
    /\ wk = 1
    /\ bytes = <<>>
    /\ utf8 = ""
    /\ attempts = 0
    /\ failed = <<>>
    /\ wret = <<"running">>

NextStl ==
    \/ stl_create
    \/ stl_header
    \/ stl_count
    \/ stl_write_point
    \/ stl_attr
    \/ txt_create
    \/ txt_solid
    \/ txt_facet
    \/ txt_outer_loop
    \/ txt_vertex
    \/ txt_endloop
    \/ txt_endfacet
    \/ txt_endsolid

SpecStl == InitStl /\ [][NextStl]_vars

----------------------------------------------------------------------------
(* Properties of the generators and of the operators of Object *)

Vertices(face) ==
    {face.triangle.vertex[1], face.triangle.vertex[2], face.triangle.vertex[3]}

\* the faces of m that have c among their three vertices
FacesAt(c, m) == {i \in 1..Len(m) : c \in Vertices(m[i])}

\* the quads of m (faces 2q-1 and 2q, as squarish emits them) that touch c
QuadsAt(c, m) ==
    {q \in 1..(Len(m) \div 2) : FacesAt(c, m) \cap {2 * q - 1, 2 * q} # {}}

PrismCorners(a) ==
    {Point_new(x, y, z) : x \in {0, a[1]}, y \in {0, a[2]}, z \in {0, a[3]}}

\* C4 as stated: a rectangular prism has 12 faces and each of its 8 distinct
\* corners is a vertex of exactly 3 of them.
C4_CornerInThreeFaces ==
    (op = "rectangular_prism" /\ Cardinality(PrismCorners(arg.n)) = 8) =>
        /\ Len(mesh) = 12
        /\ \A c \in PrismCorners(arg.n) : Cardinality(FacesAt(c, mesh)) = 3

\* C4 amended: a rectangular prism has 12 faces, two per quad; when width,
\* depth and height are nonzero each of the 8 corners is a corner of exactly
\* 3 of the 6 quads, and a vertex of 4 of the 12 triangles, or of 6 for the
\* origin and the corner opposite to it.
C4_CornerInThreeQuads ==
    op = "rectangular_prism" =>
        /\ Len(mesh) = 12
        /\ Cardinality(PrismCorners(arg.n)) = 8 =>
            /\ \A q \in 1..6 :
                 Cardinality(Vertices(mesh[2 * q - 1]) \cup Vertices(mesh[2 * q])) = 4
            /\ \A c \in PrismCorners(arg.n) :
                 /\ Cardinality(QuadsAt(c, mesh)) = 3
                 /\ Cardinality(FacesAt(c, mesh)) =
                        IF c \in {ORIGIN, Point_new(arg.n[1], arg.n[2], arg.n[3])}
                        THEN 6 ELSE 4

C4_Witness ==
    /\ op = "rectangular_prism"
    /\ Cardinality(PrismCorners(arg.n)) = 8
    /\ Len(mesh) = 12

\* C5 as stated: icosahedron(r) yields an Object of exactly 20 faces.
C5_TwentyFaces == op = "icosahedron" => (ret = "Object" /\ Len(mesh) = 20)

\* C6 as stated: umbrella(centre, spokes) with k >= 2 spokes has k faces, all
\* with centre first: face i joins spokes i and i+1 for i < k, and face k
\* joins the last spoke and the first.
C6_UmbrellaFaces ==
    (op = "umbrella" /\ Len(arg.p) >= 3) =>
        LET centre == Head(arg.p)
            spokes == Tail(arg.p)
            k == Len(spokes)
        IN  /\ Len(mesh) = k
            /\ \A i \in 1..k : mesh[i].triangle.vertex[1] = centre
            /\ \A i \in 1..(k - 1) :
                 /\ mesh[i].triangle.vertex[2] = spokes[i]
                 /\ mesh[i].triangle.vertex[3] = spokes[i + 1]
            /\ {mesh[k].triangle.vertex[2], mesh[k].triangle.vertex[3]}
                   = {spokes[1], spokes[k]}

\* C7 as stated: cylinder(height, radius) has twice the faces of circle(radius).
C7_CylinderTwiceCircle ==
    op = "cylinder" => Len(mesh) = 2 * Len(circle(arg.n[2]))

\* C8 as stated: every call of an unimplemented operation returns an outcome
\* to its caller; none completes silently, returning the unit value.
C8_StubsSignal ==
    op \in TransformStubs \cup ReadStubs => ret # "unit"

\* C9: polygon on n >= 3 vertices has the n-2 faces (v[0], v[i+1], v[i+2]),
\* i = 0 .. n-3, in that order; squarish(v1, v2) has the faces
\* (origin, v1, v1+v2) and (origin, v1+v2, v2); circle has FRAGMENTS-2 faces.
C9_PolygonFan ==
    /\ (op = "polygon" /\ Len(arg.p) >= 3) =>
          /\ Len(mesh) = Len(arg.p) - 2
          /\ \A i \in 1..(Len(arg.p) - 2) :
                mesh[i].triangle.vertex = <<arg.p[1], arg.p[i + 1], arg.p[i + 2]>>
    /\ op = "squarish" =>
          /\ Len(mesh) = 2
          /\ mesh[1].triangle.vertex =
                <<ORIGIN, arg.p[1],
                  Point_new(arg.p[1].x + arg.p[2].x, arg.p[1].y + arg.p[2].y,
                            arg.p[1].z + arg.p[2].z)>>
          /\ mesh[2].triangle.vertex =
                <<ORIGIN,
                  Point_new(arg.p[1].x + arg.p[2].x, arg.p[1].y + arg.p[2].y,
                            arg.p[1].z + arg.p[2].z),
                  arg.p[2]>>
    /\ op = "circle" => Len(mesh) = FRAGMENTS - 2

C9_Witness ==
    /\ op = "polygon"
    /\ Len(arg.p) >= 4
    /\ Cardinality({arg.p[i] : i \in 1..Len(arg.p)}) >= 3
    /\ Len(mesh) = Len(arg.p) - 2

\* C10: every face of every object has the normal (0,0,1) and the colour
\* (0,0,0,0); translating and scaling change the three vertices of each face
\* and keep its normal, its colour, the number of faces and their order.
C10_NormalAndColourConstant ==
    /\ \A i \in 1..Len(mesh) :
          /\ mesh[i].normal = [x |-> 0, y |-> 0, z |-> Unit]
          /\ mesh[i].colour = [r |-> 0, g |-> 0, b |-> 0, alpha |-> 0]
    /\ op \in {"translate", "scale"} =>
          /\ Len(mesh) = Len(prev)
          /\ \A i \in 1..Len(prev) :
                /\ mesh[i].normal = prev[i].normal
                /\ mesh[i].colour = prev[i].colour
                /\ \A k \in 1..3 :
                      LET old == prev[i].triangle.vertex[k]
                          new == mesh[i].triangle.vertex[k]
                      IN  IF op = "translate"
                          THEN /\ new.x = old.x + arg.p[1].x
                               /\ new.y = old.y + arg.p[1].y
                               /\ new.z = old.z + arg.p[1].z
                          ELSE /\ new.x * Unit = old.x * arg.n[1]
                               /\ new.y * Unit = old.y * arg.n[1]
                               /\ new.z * Unit = old.z * arg.n[1]

C10_Witness ==
    /\ op = "scale"
    /\ arg.n = <<2 * Unit>>
    /\ Len(mesh) >= 1
    /\ mesh # prev
    /\ \E i \in 1..Len(mesh) : mesh[i].triangle.vertex[2].z # 0

----------------------------------------------------------------------------
(* Properties of the writers *)

PointBytes(p) == f32_le_bytes(p.x) \o f32_le_bytes(p.y) \o f32_le_bytes(p.z)

FaceRecord(face) ==
    PointBytes(face.normal)
    \o PointBytes(face.triangle.vertex[1])
    \o PointBytes(face.triangle.vertex[2])
    \o PointBytes(face.triangle.vertex[3])
    \o <<0, 0>>

RECURSIVE FaceRecords(_)
FaceRecords(faces) ==
    IF faces = <<>> THEN <<>>
    ELSE FaceRecord(Head(faces)) \o FaceRecords(Tail(faces))

\* the binary STL file of m (of fewer than 65536 faces)
CompleteStl(m) ==
    [i \in 1..80 |-> 0]
    \o <<Len(m) % 256, Len(m) \div 256, 0, 0>>
    \o FaceRecords(m)

PointText(p) == lower_exp(p.x) \o " " \o lower_exp(p.y) \o " " \o lower_exp(p.z)

FaceLines(face) ==
    <<"facet normal " \o PointText(face.normal),
      "  outer loop",
      "    vertex " \o PointText(face.triangle.vertex[1]),
      "    vertex " \o PointText(face.triangle.vertex[2]),
      "    vertex " \o PointText(face.triangle.vertex[3]),
      "  endloop",
      "endfacet">>

RECURSIVE AllFaceLines(_)
AllFaceLines(faces) ==
    IF faces = <<>> THEN <<>>
    ELSE FaceLines(Head(faces)) \o AllFaceLines(Tail(faces))

\* the lines of the text STL file of m
CompleteLines(m) ==
    <<"solid object">> \o AllFaceLines(m) \o <<"endsolid object">>

RECURSIVE Unlines(_)
Unlines(ls) == IF ls = <<>> THEN "" ELSE Head(ls) \o "\n" \o Unlines(Tail(ls))

\* the lines of s: the text before each line feed, in order; text after the
\* last line feed counts as a line
Lines(s) ==
    LET feeds == {i \in 1..Len(s) : SubSeq(s, i, i) = "\n"}
        ends == feeds \cup (IF Len(s) > 0 /\ Len(s) \notin feeds
                            THEN {Len(s) + 1} ELSE {})
        End(k) == CHOOSE i \in ends : Cardinality({j \in ends : j < i}) = k - 1
        Start(k) == IF k = 1 THEN 1 ELSE End(k - 1) + 1
    IN  [k \in 1..Cardinality(ends) |-> SubSeq(s, Start(k), End(k) - 1)]

IsStrictPrefix(a, b) == Len(a) < Len(b) /\ SubSeq(b, 1, Len(a)) = a

\* C1: a write_stl that returns Ok has written 84 + 50*N bytes: 80 zero
\* bytes, N as a little-endian u32, and per face, in order, the normal and
\* the three vertices (three little-endian f32 each) and a zero u16.
C1_BinaryLayout ==
    (wfn = "write_stl" /\ wret = <<"Ok">>) =>
        LET n == Len(mesh)
        IN  /\ Len(bytes) = 84 + 50 * n
            /\ \A i \in 1..80 : bytes[i] = 0
            /\ bytes[81] + 256 * bytes[82] + 65536 * bytes[83]
                   + 16777216 * bytes[84] = n
            /\ \A f \in 1..n :
                  LET at == 84 + 50 * (f - 1)
                  IN  /\ SubSeq(bytes, at + 1, at + 12) = PointBytes(mesh[f].normal)
                      /\ mesh[f].normal = [x |-> 0, y |-> 0, z |-> Unit] =>
                            SubSeq(bytes, at + 1, at + 12)
                                = <<0, 0, 0, 0, 0, 0, 0, 0, 0, 0, 128, 63>>
                      /\ \A k \in 1..3 :
                            SubSeq(bytes, at + 12 * k + 1, at + 12 * k + 12)
                                = PointBytes(mesh[f].triangle.vertex[k])
                      /\ bytes[at + 49] = 0
                      /\ bytes[at + 50] = 0
            /\ bytes = CompleteStl(mesh)

C1_Witness ==
    /\ wfn = "write_stl"
    /\ wret = <<"Ok">>
    /\ Len(mesh) >= 2
    /\ Len(bytes) = 84 + 50 * Len(mesh)

\* C2: a write_text_stl that returns Ok has written 2 + 7*N lines: "solid
\* object", then per face, in order, the facet line, "  outer loop", the three
\* vertex lines, "  endloop" and "endfacet", then "endsolid object".
C2_TextLayout ==
    (wfn = "write_text_stl" /\ wret = <<"Ok">>) =>
        LET n == Len(mesh)
            ls == Lines(utf8)
        IN  /\ Len(ls) = 2 + 7 * n
            /\ SubSeq(utf8, Len(utf8), Len(utf8)) = "\n"
            /\ ls[1] = "solid object"
            /\ ls[2 + 7 * n] = "endsolid object"
            /\ \A f \in 1..n :
                  LET at == 1 + 7 * (f - 1)
                  IN  /\ ls[at + 1] = "facet normal " \o PointText(mesh[f].normal)
                      /\ mesh[f].normal = [x |-> 0, y |-> 0, z |-> Unit] =>
                            ls[at + 1] = "facet normal 0e0 0e0 1e0"
                      /\ ls[at + 2] = "  outer loop"
                      /\ \A k \in 1..3 :
                            ls[at + 2 + k] =
                                "    vertex " \o PointText(mesh[f].triangle.vertex[k])
                      /\ ls[at + 6] = "  endloop"
                      /\ ls[at + 7] = "endfacet"
            /\ mesh = rectangle(10 * Unit, 20 * Unit) =>
                  ls = <<"solid object",
                         "facet normal 0e0 0e0 1e0",
                         "  outer loop",
                         "    vertex 0e0 0e0 0e0",
                         "    vertex 1e1 0e0 0e0",
                         "    vertex 1e1 2e1 0e0",
                         "  endloop",
                         "endfacet",
                         "facet normal 0e0 0e0 1e0",
                         "  outer loop",
                         "    vertex 0e0 0e0 0e0",
                         "    vertex 1e1 2e1 0e0",
                         "    vertex 0e0 2e1 0e0",
                         "  endloop",
                         "endfacet",
                         "endsolid object">>

C2_Witness ==
    /\ wfn = "write_text_stl"
    /\ wret = <<"Ok">>
    /\ Len(mesh) >= 2
    /\ Len(Lines(utf8)) = 2 + 7 * Len(mesh)

\* C3: when File::create or a write fails, the writer returns that failure,
\* issues no further call, and the file holds a strict prefix of the complete
\* output; the writer returns an Err in no other case.
C3_FailureReturnedAtOnce ==
    /\ failed # <<>> =>
          /\ pc = "returned"
          /\ wret = <<"Err", failed[1], failed[2]>>
          /\ attempts = failed[2]
          /\ IF wfn = "write_stl"
             THEN IsStrictPrefix(bytes, CompleteStl(mesh))
             ELSE IsStrictPrefix(utf8, Unlines(CompleteLines(mesh)))
    /\ wret[1] = "Err" => failed # <<>>

C3_Witness ==
    /\ wfn = "write_stl"
    /\ failed # <<>>
    /\ failed[1] = "point"
    /\ wi >= 1
    /\ wret[1] = "Err"
    /\ Len(bytes) > 84 + 50

\* the same for write_text_stl, failing inside a face
C3_WitnessText ==
    /\ wfn = "write_text_stl"
    /\ failed # <<>>
    /\ failed[1] = "vertex"
    /\ wret[1] = "Err"

====
